---------------------------- MODULE Spec2Model ----------------------------
(***************************************************************************)
(* A model of the two probe scripts of sme-vuln-patch-toolkit:             *)
(*   tools/scanner/tls_cipher_audit.py          (TLS audit)                *)
(*   tools/scanner/weak_configuration_scanner.py (HTTP redirect/headers)   *)
(*                                                                         *)
(* Python strings are sequences of one-character strings, so that strip,   *)
(* lower, upper, split, substring and prefix tests are computed and not    *)
(* assumed.  An Optional[T] is <<>> (None) or <<x>> (a value x).           *)
(***************************************************************************)
EXTENDS Integers, Sequences, FiniteSets, TLC

VARIABLES
    tool,       \* what runs: "tls" / "http" (main over a target list), "walk" / "headers"
                \* (the HTTP scanner on one URL), "classify" / "gather_targets" /
                \* "gather_urls" (one function)
    pc,         \* position of the running entry point
    args,       \* argparse.Namespace: target/url, targets/urls, input
    targets,    \* the list gather_targets / gather_urls returned
    idx,        \* 1-based position of the main loop in targets
    results,    \* the results list of main
    cur,        \* the TLSResult check_target is working on (t)
    sock,       \* sockets of the TLS probe: sequence of "open" / "closed"
    url,        \* analyse_target: the normalized url
    responses,  \* fetch_url: the responses list
    wire        \* what the network answered to the current HTTP probe, request by request

vars == <<tool, pc, args, targets, idx, results, cur, sock, url, responses, wire>>

----------------------------------------------------------------------------
(* Optional values and Python strings *)

None == <<>>

Some(x) == <<x>>

IsNone(o) == Len(o) = 0

Val(o) == o[1]

\* Python truthiness of an Optional[str]: neither None nor "".
Truthy(o) == Len(o) = 1 /\ Len(o[1]) > 0

WhiteSpace == {" ", "\t"}

Digits == <<"0", "1", "2", "3", "4", "5", "6", "7", "8", "9">>

UpperAlpha ==
    <<"A", "B", "C", "D", "E", "F", "G", "H", "I", "J", "K", "L", "M",
      "N", "O", "P", "Q", "R", "S", "T", "U", "V", "W", "X", "Y", "Z">>

LowerAlpha ==
    <<"a", "b", "c", "d", "e", "f", "g", "h", "i", "j", "k", "l", "m",
      "n", "o", "p", "q", "r", "s", "t", "u", "v", "w", "x", "y", "z">>

IndexIn(c, alpha) ==
    IF \E i \in 1..Len(alpha) : alpha[i] = c
    THEN CHOOSE i \in 1..Len(alpha) : alpha[i] = c
    ELSE 0

\* the case mappings of the ASCII letters, as tables
UpperTable == [c \in {LowerAlpha[i] : i \in 1..26} |-> UpperAlpha[IndexIn(c, LowerAlpha)]]

LowerTable == [c \in {UpperAlpha[i] : i \in 1..26} |-> LowerAlpha[IndexIn(c, UpperAlpha)]]

DigitTable == [c \in {Digits[i] : i \in 1..10} |-> IndexIn(c, Digits) - 1]

UpperChar(c) == IF c \in DOMAIN UpperTable THEN UpperTable[c] ELSE c

LowerChar(c) == IF c \in DOMAIN LowerTable THEN LowerTable[c] ELSE c

\* str.upper()
Upper(s) == [i \in 1..Len(s) |-> UpperChar(s[i])]

\* str.lower()
Lower(s) == [i \in 1..Len(s) |-> LowerChar(s[i])]

\* s[a-1:b] in Python terms: characters a..b, empty when a > b
Slice(s, a, b) == IF a > b THEN <<>> ELSE SubSeq(s, a, b)

\* str.startswith
StartsWith(s, p) == Len(p) <= Len(s) /\ SubSeq(s, 1, Len(p)) = p

\* needle in hay
Contains(hay, needle) ==
    \E i \in 1..(Len(hay) - Len(needle) + 1) : SubSeq(hay, i, i + Len(needle) - 1) = needle

\* str.find(c) + 1 for a single character: 0 when absent
Find(s, c) ==
    IF \E i \in 1..Len(s) : s[i] = c
    THEN CHOOSE i \in 1..Len(s) : s[i] = c /\ \A j \in 1..(i - 1) : s[j] # c
    ELSE 0

\* str.rfind(c) + 1 for a single character: 0 when absent
RFind(s, c) ==
    IF \E i \in 1..Len(s) : s[i] = c
    THEN CHOOSE i \in 1..Len(s) : s[i] = c /\ \A j \in (i + 1)..Len(s) : s[j] # c
    ELSE 0

\* str.strip(): drop leading and trailing whitespace
Strip(s) ==
    LET keep == {i \in 1..Len(s) : s[i] \notin WhiteSpace}
    IN  IF keep = {} THEN <<>>
        ELSE LET lo == CHOOSE i \in keep : \A j \in keep : i <= j
                 hi == CHOOSE i \in keep : \A j \in keep : i >= j
             IN  SubSeq(s, lo, hi)

RECURSIVE Split(_, _)
\* str.split(c) for a single character c: always at least one piece
Split(s, c) ==
    LET i == Find(s, c)
    IN  IF i = 0 THEN <<s>>
        ELSE <<Slice(s, 1, i - 1)>> \o Split(Slice(s, i + 1, Len(s)), c)

\* str.isdigit() on ASCII text: non-empty, digits only
IsDigit(s) == Len(s) > 0 /\ \A i \in 1..Len(s) : s[i] \in DOMAIN DigitTable

RECURSIVE DigitsValue(_)
\* the number a digit string denotes
DigitsValue(s) ==
    IF Len(s) = 0 THEN 0
    ELSE 10 * DigitsValue(SubSeq(s, 1, Len(s) - 1)) + DigitTable[s[Len(s)]]

\* int(s): surrounding whitespace and one sign are accepted; anything else
\* raises ValueError (ok = FALSE).
PyInt(s) ==
    LET t    == Strip(s)
        sgn  == Len(t) > 0 /\ t[1] \in {"+", "-"}
        body == IF sgn THEN Slice(t, 2, Len(t)) ELSE t
    IN  IF IsDigit(body)
        THEN [ok |-> TRUE, val |-> IF sgn /\ t[1] = "-" THEN 0 - DigitsValue(body) ELSE DigitsValue(body)]
        ELSE [ok |-> FALSE, val |-> 0]

Range(s) == {s[i] : i \in 1..Len(s)}

RECURSIVE SeqsUpTo(_, _)
\* every sequence over S of length at most n
SeqsUpTo(S, n) ==
    IF n = 0 THEN {<<>>}
    ELSE LET shorter == SeqsUpTo(S, n - 1)
         IN  shorter \cup {Append(q, x) : q \in {r \in shorter : Len(r) = n - 1}, x \in S}

RECURSIVE Flatten(_)
\* concatenation of a sequence of strings
Flatten(ss) == IF Len(ss) = 0 THEN <<>> ELSE ss[1] \o Flatten(Tail(ss))

----------------------------------------------------------------------------
(* tls_cipher_audit.py: the weakness rules *)

s_SSLv2 == <<"S", "S", "L", "v", "2">>
s_SSLv3 == <<"S", "S", "L", "v", "3">>
s_TLSv1 == <<"T", "L", "S", "v", "1">>
s_TLSv1_1 == <<"T", "L", "S", "v", "1", ".", "1">>
s_TLSv1_2 == <<"T", "L", "S", "v", "1", ".", "2">>
s_TLSv1_3 == <<"T", "L", "S", "v", "1", ".", "3">>

WEAK_PROTOCOLS == {s_SSLv2, s_SSLv3, s_TLSv1, s_TLSv1_1}

WEAK_CIPHER_SUBSTRINGS ==
    << <<"R", "C", "4">>,
       <<"3", "D", "E", "S">>,
       <<"D", "E", "S", "-">>,
       <<"M", "D", "5">>,
       <<"N", "U", "L", "L">>,
       <<"E", "X", "P", "O", "R", "T">> >>

MinCipherBits == 128

\* is_weak_protocol with the version compared without regard to case
is_weak_protocol_anycase(tls_version) ==
    IF ~Truthy(tls_version) THEN FALSE
    ELSE \E w \in WEAK_PROTOCOLS : Lower(Val(tls_version)) = Lower(w)

is_weak_protocol(tls_version) ==
    IF ~Truthy(tls_version) THEN FALSE
    ELSE Val(tls_version) \in WEAK_PROTOCOLS

is_weak_cipher(cipher_name, cipher_bits) ==
    IF ~Truthy(cipher_name) THEN FALSE
    ELSE LET upper_name == Upper(Val(cipher_name))
         IN  IF \E k \in 1..Len(WEAK_CIPHER_SUBSTRINGS) : Contains(upper_name, WEAK_CIPHER_SUBSTRINGS[k])
             THEN TRUE
             ELSE IF ~IsNone(cipher_bits) /\ Val(cipher_bits) < MinCipherBits THEN TRUE
             ELSE FALSE

DefaultPort == 443

TLSResult(target, hostname, port, error) ==
    [target |-> target, hostname |-> hostname, port |-> port,
     tls_version |-> None, cipher_name |-> None, cipher_protocol |-> None,
     cipher_bits |-> None, weak_protocol |-> FALSE, weak_cipher |-> FALSE,
     error |-> error]

\* parse_target: ok = FALSE stands for the ValueError it raises (err is its text)
parse_target(target_in) ==
    LET target == Strip(target_in)
        colon  == RFind(target, ":")
        host   == IF colon = 0 THEN target ELSE Slice(target, 1, colon - 1)
        port_str == Slice(target, colon + 1, Len(target))
    IN  IF Len(target) = 0
        THEN [ok |-> FALSE, err |-> <<"Empty target entry">>, res |-> TLSResult(target, target, 0, None)]
        ELSE IF colon = 0
        THEN [ok |-> TRUE, err |-> <<>>, res |-> TLSResult(target, host, DefaultPort, None)]
        ELSE IF ~IsDigit(port_str)
        THEN [ok |-> FALSE, err |-> <<"Invalid port in target: ">> \o target,
              res |-> TLSResult(target, target, 0, None)]
        ELSE [ok |-> TRUE, err |-> <<>>, res |-> TLSResult(target, host, DigitsValue(port_str), None)]

\* load_targets_from_file: stripped lines, blank lines and # comments skipped
load_targets_from_file(lines) ==
    LET stripped == [i \in 1..Len(lines) |-> Strip(lines[i])]
    IN  SelectSeq(stripped, LAMBDA l : ~(Len(l) = 0 \/ StartsWith(l, <<"#">>)))

RECURSIVE Dedup(_, _)
\* the seen-set loop: first occurrences, in order
Dedup(list, seen) ==
    IF Len(list) = 0 THEN <<>>
    ELSE IF list[1] \in seen THEN Dedup(Tail(list), seen)
    ELSE <<list[1]>> \o Dedup(Tail(list), seen \cup {list[1]})

\* the items of a comma-separated option: stripped, empty ones dropped
CommaItems(s) ==
    LET parts == Split(s, ",")
        stripped == [i \in 1..Len(parts) |-> Strip(parts[i])]
    IN  SelectSeq(stripped, LAMBDA t : Len(t) > 0)

\* gather_targets: ok = FALSE stands for the exception it raises
gather_targets(a) ==
    LET one  == IF Truthy(a.target) THEN <<Val(a.target)>> ELSE <<>>
        many == IF Truthy(a.targets) THEN CommaItems(Val(a.targets)) ELSE <<>>
        missing == ~IsNone(a.input) /\ ~Val(a.input).exists
        from_file == IF IsNone(a.input) \/ missing THEN <<>>
                     ELSE load_targets_from_file(Val(a.input).lines)
        unique_targets == Dedup(one \o many \o from_file, {})
    IN  IF missing THEN [ok |-> FALSE, err |-> <<"Input file not found">>, list |-> <<>>]
        ELSE IF Len(unique_targets) = 0
        THEN [ok |-> FALSE, err |-> <<"No targets specified">>, list |-> <<>>]
        ELSE [ok |-> TRUE, err |-> <<>>, list |-> unique_targets]

----------------------------------------------------------------------------
(* tls_cipher_audit.py: check_target and main, one action per step *)

\* what the peer and the network can answer during one probe
ConnectErrors == {<<"[Errno 111] Connection refused">>}

HandshakeErrors == {<<"[SSL] handshake failure">>}

ReadErrors == {<<"[Errno 104] Connection reset by peer">>}

s_AES == <<"A", "E", "S">>

\* ssock.version(): None or a protocol name
Versions == {Some(s_TLSv1_2), Some(s_TLSv1_1)}

\* ssock.cipher(): None or (cipher_name, protocol, secret_bits)
Ciphers == {None, Some(<<s_AES, s_TLSv1_2, 256>>)}

\* leaving the "with" blocks closes the socket opened last
CloseLast(socks) == [socks EXCEPT ![Len(socks)] = "closed"]

\* check_target returns t; main appends it and moves to the next target
TlsReturn(t) ==
    /\ results' = Append(results, t)
    /\ cur' = t
    /\ idx' = idx + 1
    /\ pc' = "loop"

\* main, lines 273-279: gather_targets, or "Error: ..." and return 1
TlsGather ==
    /\ tool = "tls" /\ pc = "start"
    /\ LET g == gather_targets(args)
       IN  IF g.ok
           THEN targets' = g.list /\ pc' = "loop"
           ELSE targets' = <<>> /\ pc' = "fatal"
    /\ UNCHANGED <<tool, args, idx, results, cur, sock, url, responses, wire>>

\* TlsParse dropping the entry it cannot parse instead of storing its error
TlsParse_DropInvalid ==
    /\ tool = "tls" /\ pc = "loop" /\ idx <= Len(targets)
    /\ LET t_str == targets[idx]
           p == parse_target(t_str)
       IN  IF p.ok
           THEN cur' = p.res /\ pc' = "connect" /\ UNCHANGED <<results, idx>>
           ELSE /\ idx' = idx + 1
                /\ UNCHANGED <<results, cur, pc>>
    /\ UNCHANGED <<tool, args, targets, sock, url, responses, wire>>

\* main, lines 283-302: parse_target; a parse error is stored as the result
TlsParse ==
    /\ tool = "tls" /\ pc = "loop" /\ idx <= Len(targets)
    /\ LET t_str == targets[idx]
           p == parse_target(t_str)
       IN  IF p.ok
           THEN cur' = p.res /\ pc' = "connect" /\ UNCHANGED <<results, idx>>
           ELSE /\ results' = Append(results,
                       TLSResult(t_str, t_str, 0, Some(<<"Invalid target format: ">> \o p.err)))
                /\ idx' = idx + 1
                /\ UNCHANGED <<cur, pc>>
    /\ UNCHANGED <<tool, args, targets, sock, url, responses, wire>>

\* check_target, line 129: socket.create_connection raises or yields a socket
TlsConnect ==
    /\ tool = "tls" /\ pc = "connect"
    /\ \/ /\ \E e \in ConnectErrors : TlsReturn([cur EXCEPT !.error = Some(e)])
          /\ UNCHANGED sock
       \/ /\ cur.port \in 1..65535
          /\ sock' = Append(sock, "open")
          /\ pc' = "handshake"
          /\ UNCHANGED <<results, cur, idx>>
    /\ UNCHANGED <<tool, args, targets, url, responses, wire>>

\* a variant that leaves the socket open when the handshake fails
TlsHandshake_socket_left_open ==
    /\ tool = "tls" /\ pc = "handshake"
    /\ \/ /\ \E e \in HandshakeErrors : TlsReturn([cur EXCEPT !.error = Some(e)])
          /\ UNCHANGED sock
       \/ /\ pc' = "version"
          /\ UNCHANGED <<results, cur, idx, sock>>
    /\ UNCHANGED <<tool, args, targets, url, responses, wire>>

\* check_target, line 130: context.wrap_socket performs the handshake
TlsHandshake ==
    /\ tool = "tls" /\ pc = "handshake"
    /\ \/ /\ \E e \in HandshakeErrors : TlsReturn([cur EXCEPT !.error = Some(e)])
          /\ sock' = CloseLast(sock)
       \/ /\ pc' = "version"
          /\ UNCHANGED <<results, cur, idx, sock>>
    /\ UNCHANGED <<tool, args, targets, url, responses, wire>>

\* check_target, lines 132-135: ssock.version(); its exception is swallowed
TlsReadVersion ==
    /\ tool = "tls" /\ pc = "version"
    /\ \E raised \in BOOLEAN, v \in Versions :
          cur' = [cur EXCEPT !.tls_version = IF raised THEN None ELSE v]
    /\ pc' = "cipher"
    /\ UNCHANGED <<tool, args, targets, idx, results, sock, url, responses, wire>>

\* lines 144-145 applied to t
Classified(t) ==
    [t EXCEPT !.weak_protocol = is_weak_protocol(t.tls_version),
              !.weak_cipher = is_weak_cipher(t.cipher_name, t.cipher_bits)]

\* lines 139-142
WithCipher(t, cipher) ==
    IF IsNone(cipher) THEN t
    ELSE [t EXCEPT !.cipher_name = Some(Val(cipher)[1]),
                   !.cipher_protocol = Some(Val(cipher)[2]),
                   !.cipher_bits = Some(Val(cipher)[3])]

\* check_target, lines 137-150: ssock.cipher(), the two flags, the socket closed
TlsReadCipher ==
    /\ tool = "tls" /\ pc = "cipher"
    /\ \/ \E e \in ReadErrors : TlsReturn([cur EXCEPT !.error = Some(e)])
       \/ \E cipher \in Ciphers : TlsReturn(Classified(WithCipher(cur, cipher)))
    /\ sock' = CloseLast(sock)
    /\ UNCHANGED <<tool, args, targets, url, responses, wire>>

\* main, lines 307-313: the report is printed and main returns 0
TlsReport ==
    /\ tool = "tls" /\ pc = "loop" /\ idx > Len(targets)
    /\ pc' = "done"
    /\ UNCHANGED <<tool, args, targets, idx, results, cur, sock, url, responses, wire>>

----------------------------------------------------------------------------
(* The classifier of tls_cipher_audit.py on its own: every observation *)

MaxFragments == 2

NameFragments ==
    { <<"R", "C">>, <<"4">>, <<"3">>, <<"D", "E", "S">>, <<"d", "e", "s">>, <<"-">>,
      <<"M", "d", "5">>, <<"n", "u", "l", "l">>, <<"E", "X", "P", "O", "R", "T">>, s_AES }

ObsNames == {None} \cup {Some(Flatten(fs)) : fs \in SeqsUpTo(NameFragments, MaxFragments)}

ObsVersions ==
    {None, Some(<<>>), Some(s_SSLv2), Some(s_SSLv3), Some(s_TLSv1), Some(s_TLSv1_1),
     Some(s_TLSv1_2), Some(s_TLSv1_3), Some(Lower(s_TLSv1)), Some(s_TLSv1 \o <<".">>)}

ObsBits == {None, Some(0), Some(56), Some(112), Some(127), Some(128), Some(256)}

ClassifyInit ==
    /\ tool = "classify" /\ pc = "observed"
    /\ cur \in {[TLSResult(<<"a">>, <<"a">>, DefaultPort, None)
                    EXCEPT !.tls_version = v, !.cipher_name = n, !.cipher_bits = b] :
                v \in ObsVersions, n \in ObsNames, b \in ObsBits}
    /\ args = None /\ targets = <<>> /\ idx = 1 /\ results = <<>> /\ sock = <<>>
    /\ url = None /\ responses = <<>> /\ wire = <<>>

\* check_target, lines 144-145
Classify ==
    /\ tool = "classify" /\ pc = "observed"
    /\ cur' = Classified(cur)
    /\ pc' = "classified"
    /\ UNCHANGED <<tool, args, targets, idx, results, sock, url, responses, wire>>

SpecClassify == ClassifyInit /\ [][Classify]_vars

----------------------------------------------------------------------------
(* parse_target of tls_cipher_audit.py on its own: every small entry *)

MaxTargetFragments == 3

\* the text left of the port: pieces of host names, colons, blanks, digits
TargetFragments == { <<"a">>, <<":">>, <<" ">>, <<"9">> }

\* the text right of the last colon, when the entry ends in one
PortTexts == { <<>>, <<"0">>, <<"1">>, <<"4", "4", "3">>, <<"6", "5", "5", "3", "5">>, <<"6", "5", "5", "3", "6">>, <<"x">>, <<" ", "9">> }

TargetTexts ==
    LET fronts == {Flatten(fs) : fs \in SeqsUpTo(TargetFragments, MaxTargetFragments)}
    IN  fronts \cup {f \o <<":">> \o p : f \in fronts, p \in PortTexts}

ParseInit ==
    /\ tool = "parse_target" /\ pc = "start"
    /\ args \in {Some(t) : t \in TargetTexts}
    /\ targets = <<>> /\ idx = 1 /\ results = <<>> /\ sock = <<>>
    /\ cur = TLSResult(<<>>, <<>>, 0, None)
    /\ url = None /\ responses = <<>> /\ wire = <<>>

\* parse_target(target), lines 65-93: a descriptor, or ValueError
ParseTarget ==
    /\ tool = "parse_target" /\ pc = "start"
    /\ LET p == parse_target(Val(args))
       IN  IF p.ok
           THEN cur' = p.res /\ pc' = "parsed"
           ELSE cur' = cur /\ pc' = "raised"
    /\ UNCHANGED <<tool, args, targets, idx, results, sock, url, responses, wire>>

SpecParse == ParseInit /\ [][ParseTarget]_vars

----------------------------------------------------------------------------
(* weak_configuration_scanner.py: URLs *)

s_http == <<"h", "t", "t", "p">>
s_https == <<"h", "t", "t", "p", "s">>
s_https_prefix == <<"h", "t", "t", "p", "s", ":", "/", "/">>

Letters == DOMAIN UpperTable \cup DOMAIN LowerTable

\* urllib.parse.scheme_chars
SchemeChars == Letters \cup DOMAIN DigitTable \cup {"+", "-", "."}

\* the first position of s holding a character of cs, Len(s) + 1 when none
FirstOf(s, cs) ==
    IF \E i \in 1..Len(s) : s[i] \in cs
    THEN CHOOSE i \in 1..Len(s) : s[i] \in cs /\ \A j \in 1..(i - 1) : s[j] \notin cs
    ELSE Len(s) + 1

\* urllib.parse.urlparse (urlsplit): the scheme is the text before the first
\* ":" when it starts with a letter and holds scheme characters only; a
\* netloc follows "//"; a netloc with an unmatched bracket raises ValueError
\* (ok = FALSE).
urlparse(u) ==
    LET i == Find(u, ":")
        has_scheme == /\ i > 1
                      /\ u[1] \in Letters
                      /\ \A j \in 1..(i - 1) : u[j] \in SchemeChars
        scheme == IF has_scheme THEN Lower(Slice(u, 1, i - 1)) ELSE <<>>
        rest   == IF has_scheme THEN Slice(u, i + 1, Len(u)) ELSE u
        has_netloc == StartsWith(rest, <<"/", "/">>)
        after  == Slice(rest, 3, Len(rest))
        cut    == FirstOf(after, {"/", "?", "#"})
        netloc == IF has_netloc THEN Slice(after, 1, cut - 1) ELSE <<>>
        path   == IF has_netloc THEN Slice(after, cut, Len(after)) ELSE rest
    IN  [ok |-> ~(has_netloc /\ (("[" \in Range(netloc)) # ("]" \in Range(netloc)))),
         scheme |-> scheme, netloc |-> netloc, path |-> path]

\* normalize_url: ok = FALSE stands for the ValueError raised by it or by urlparse
normalize_url(url_in) ==
    LET u == Strip(url_in)
        parsed == urlparse(u)
    IN  IF Len(u) = 0 THEN [ok |-> FALSE, err |-> <<"Empty URL">>, url |-> u]
        ELSE IF ~parsed.ok THEN [ok |-> FALSE, err |-> <<"Invalid IPv6 URL">>, url |-> u]
        ELSE IF Len(parsed.scheme) = 0 THEN [ok |-> TRUE, err |-> <<>>, url |-> s_https_prefix \o u]
        ELSE [ok |-> TRUE, err |-> <<>>, url |-> u]

\* requests.compat.urljoin for the shapes of Location the model sends: empty,
\* a full URL, //host/path, /path, and a path relative to the base's directory
urljoin(base, location) ==
    LET b == urlparse(base)
        l == urlparse(location)
        origin == b.scheme \o <<":", "/", "/">> \o b.netloc
        slash == RFind(b.path, "/")
    IN  IF Len(location) = 0 THEN base
        ELSE IF Len(l.scheme) > 0 THEN location
        ELSE IF StartsWith(location, <<"/", "/">>) THEN b.scheme \o <<":">> \o location
        ELSE IF StartsWith(location, <<"/">>) THEN origin \o location
        ELSE origin \o (IF slash = 0 THEN <<"/">> ELSE Slice(b.path, 1, slash)) \o location

\* session.get can send only an http(s) URL that names a host; anything else
\* raises (MissingSchema, InvalidSchema, InvalidURL) before a byte is sent
CanRequest(u) ==
    LET p == urlparse(u)
    IN  p.ok /\ p.scheme \in {s_http, s_https} /\ Len(p.netloc) > 0

\* Response.url: the URL as requests prepared it (an empty path becomes "/")
PreparedUrl(u) == IF Len(urlparse(u).path) = 0 THEN u \o <<"/">> ELSE u

----------------------------------------------------------------------------
(* weak_configuration_scanner.py: headers *)

h_hsts == <<"s", "t", "r", "i", "c", "t", "-", "t", "r", "a", "n", "s", "p", "o", "r", "t", "-", "s", "e", "c", "u", "r", "i", "t", "y">>
h_csp == <<"c", "o", "n", "t", "e", "n", "t", "-", "s", "e", "c", "u", "r", "i", "t", "y", "-", "p", "o", "l", "i", "c", "y">>
h_xcto == <<"x", "-", "c", "o", "n", "t", "e", "n", "t", "-", "t", "y", "p", "e", "-", "o", "p", "t", "i", "o", "n", "s">>
h_xfo == <<"x", "-", "f", "r", "a", "m", "e", "-", "o", "p", "t", "i", "o", "n", "s">>
h_rp == <<"r", "e", "f", "e", "r", "r", "e", "r", "-", "p", "o", "l", "i", "c", "y">>
h_pp == <<"p", "e", "r", "m", "i", "s", "s", "i", "o", "n", "s", "-", "p", "o", "l", "i", "c", "y">>
h_xxp == <<"x", "-", "x", "s", "s", "-", "p", "r", "o", "t", "e", "c", "t", "i", "o", "n">>
h_location == <<"l", "o", "c", "a", "t", "i", "o", "n">>
s_max_age == <<"m", "a", "x", "-", "a", "g", "e">>
s_nosniff == <<"n", "o", "s", "n", "i", "f", "f">>
s_deny == <<"d", "e", "n", "y">>
s_sameorigin == <<"s", "a", "m", "e", "o", "r", "i", "g", "i", "n">>
s_no_referrer_when_downgrade == <<"n", "o", "-", "r", "e", "f", "e", "r", "r", "e", "r", "-", "w", "h", "e", "n", "-", "d", "o", "w", "n", "g", "r", "a", "d", "e">>
s_unsafe_url == <<"u", "n", "s", "a", "f", "e", "-", "u", "r", "l">>

REQUIRED_HEADERS == <<h_hsts, h_csp, h_xcto, h_xfo, h_rp>>

OPTIONAL_HEADERS == <<h_pp, h_xxp>>

\* a header container (requests' CaseInsensitiveDict) is a function from the
\* names as sent to the values; HasHeader / GetHeader look a name up whatever
\* its case
HasHeader(headers, name) == \E k \in DOMAIN headers : Lower(k) = Lower(name)

GetHeader(headers, name) == headers[CHOOSE k \in DOMAIN headers : Lower(k) = Lower(name)]

\* a variant that keeps the names as the server spelled them
LowerKeys_as_sent(headers) == headers

\* {k.lower(): v for k, v in resp.headers.items()}
LowerKeys(headers) ==
    [h \in {Lower(k) : k \in DOMAIN headers} |->
        headers[CHOOSE k \in DOMAIN headers : Lower(k) = h]]

\* dict.get(name): None when the key is absent
DictGet(d, name) == IF name \in DOMAIN d THEN Some(d[name]) ELSE None

\* sep.join(list)
RECURSIVE Join(_, _)
Join(list, sep) ==
    IF Len(list) = 0 THEN <<>>
    ELSE IF Len(list) = 1 THEN list[1]
    ELSE list[1] \o sep \o Join(Tail(list), sep)

MinHstsMaxAge == 15552000

NoteHstsNoMaxAge == <<"HSTS present but max-age missing">>
NoteHstsShort == <<"HSTS max-age < 6 months (consider increasing)">>
NoteHstsUnparsed == <<"Could not parse HSTS max-age">>
NoteHstsMissing == <<"HSTS missing (for HTTPS site)">>
NoteCspMissing == <<"Content-Security-Policy header missing">>
NoteXctoMissing == <<"X-Content-Type-Options missing">>
NoteXfoMissing == <<"X-Frame-Options missing (consider SAMEORIGIN or DENY)">>
NoteRpMissing == <<"Referrer-Policy missing (consider 'strict-origin-when-cross-origin')">>
NotePpMissing == <<"Permissions-Policy missing (not critical but recommended)">>

\* check_security_headers, lines 130-148: the notes of the HSTS block
HstsFindings(hsts) ==
    IF ~Truthy(hsts) THEN <<NoteHstsMissing>>
    ELSE IF ~Contains(Lower(Val(hsts)), s_max_age) THEN <<NoteHstsNoMaxAge>>
    ELSE LET split == Split(Val(hsts), ";")
             parts == [i \in 1..Len(split) |-> Strip(split[i])]
             hits  == SelectSeq(parts, LAMBDA q : StartsWith(Lower(q), s_max_age))
             max_age_part == IF Len(hits) = 0 THEN <<>> ELSE hits[1]
             eq    == Find(max_age_part, "=")
             val   == PyInt(Slice(max_age_part, eq + 1, Len(max_age_part)))
         IN  IF eq = 0 THEN <<>>
             ELSE IF ~val.ok THEN <<NoteHstsUnparsed>>
             ELSE IF val.val < MinHstsMaxAge THEN <<NoteHstsShort>>
             ELSE <<>>

\* check_security_headers, lines 150-188: the notes of the other headers
OtherFindings(headers) ==
    LET csp  == DictGet(headers, h_csp)
        xcto == DictGet(headers, h_xcto)
        xfo  == DictGet(headers, h_xfo)
        rp   == DictGet(headers, h_rp)
        pp   == DictGet(headers, h_pp)
        xxp  == DictGet(headers, h_xxp)
    IN  (IF ~Truthy(csp) THEN <<NoteCspMissing>> ELSE <<>>)
        \o (IF ~Truthy(xcto) THEN <<NoteXctoMissing>>
            ELSE IF Lower(Val(xcto)) # s_nosniff
            THEN << <<"X-Content-Type-Options is '">> \o Val(xcto) \o <<"', expected 'nosniff'">> >>
            ELSE <<>>)
        \o (IF ~Truthy(xfo) THEN <<NoteXfoMissing>>
            ELSE IF Lower(Val(xfo)) \notin {s_deny, s_sameorigin}
            THEN << <<"X-Frame-Options value '">> \o Val(xfo)
                    \o <<"' is non-standard; prefer DENY or SAMEORIGIN">> >>
            ELSE <<>>)
        \o (IF ~Truthy(rp) THEN <<NoteRpMissing>>
            ELSE IF Lower(Val(rp)) \in {s_no_referrer_when_downgrade, s_unsafe_url}
            THEN << <<"Referrer-Policy '">> \o Val(rp) \o <<"' is weaker than recommended">> >>
            ELSE <<>>)
        \o (IF ~Truthy(pp) THEN <<NotePpMissing>> ELSE <<>>)
        \o (IF Truthy(xxp)
            THEN << <<"X-XSS-Protection present (legacy): '">> \o Val(xxp) \o <<"'">> >>
            ELSE <<>>)

\* check_security_headers: (missing_required, missing_optional, findings)
check_security_headers(r) ==
    LET headers == LowerKeys(r.headers)
    IN  [missing_required |-> SelectSeq(REQUIRED_HEADERS, LAMBDA h : h \notin DOMAIN headers),
         missing_optional |-> SelectSeq(OPTIONAL_HEADERS, LAMBDA h : h \notin DOMAIN headers),
         findings |-> HstsFindings(DictGet(headers, h_hsts)) \o OtherFindings(headers)]

SiteCheckResult(u, final_url, scheme, status_code, redirect_chain, https_downgrade, missing_required, missing_optional, findings, error) ==
    [url |-> u, final_url |-> final_url, scheme |-> scheme, status_code |-> status_code,
     redirect_chain |-> redirect_chain, https_downgrade |-> https_downgrade,
     missing_required_headers |-> missing_required,
     missing_optional_headers |-> missing_optional,
     header_findings |-> findings, error |-> error]

IsRedirect(status_code) == 300 <= status_code /\ status_code < 400

\* a variant that flags an http hop anywhere after an https start
https_downgrade_any_hop(fetched) ==
    /\ urlparse(fetched[1].url).scheme = s_https
    /\ \E i \in 1..Len(fetched) : urlparse(fetched[i].url).scheme = s_http

\* analyse_target, lines 214-219: first scheme against final scheme
https_downgrade(fetched) ==
    LET first_scheme == urlparse(fetched[1].url).scheme
        final_resp == fetched[Len(fetched)]
        final_scheme == urlparse(final_resp.url).scheme
    IN  first_scheme = s_https /\ final_scheme = s_http

\* analyse_target, lines 197-240, on what fetch_url returned
analyse_target(u, fetched, error) ==
    IF ~IsNone(error) \/ Len(fetched) = 0
    THEN SiteCheckResult(u, None, None, None, <<>>, FALSE, <<>>, <<>>, <<>>,
                         IF ~IsNone(error) THEN error ELSE Some(<<"No response">>))
    ELSE LET chain_urls == [i \in 1..Len(fetched) |-> fetched[i].url]
             final_resp == fetched[Len(fetched)]
             final_scheme == urlparse(final_resp.url).scheme
             checked == IF ~IsRedirect(final_resp.status_code)
                        THEN check_security_headers(final_resp)
                        ELSE [missing_required |-> <<>>, missing_optional |-> <<>>,
                              findings |-> <<>>]
         IN  SiteCheckResult(u, Some(final_resp.url), Some(final_scheme),
                             Some(final_resp.status_code),
                             Join(chain_urls, <<" ", "-", ">", " ">>),
                             https_downgrade(fetched),
                             Join(checked.missing_required, <<";">>),
                             Join(checked.missing_optional, <<";">>),
                             Join(checked.findings, <<" ", "|", " ">>),
                             None)

\* load_urls_from_file: stripped lines, blank lines and # comments skipped
load_urls_from_file(lines) ==
    LET stripped == [i \in 1..Len(lines) |-> Strip(lines[i])]
    IN  SelectSeq(stripped, LAMBDA l : ~(Len(l) = 0 \/ StartsWith(l, <<"#">>)))

\* gather_urls: ok = FALSE stands for the exception it raises
gather_urls(a) ==
    LET one  == IF Truthy(a.url) THEN <<Val(a.url)>> ELSE <<>>
        many == IF Truthy(a.urls) THEN CommaItems(Val(a.urls)) ELSE <<>>
        missing == ~IsNone(a.input) /\ ~Val(a.input).exists
        from_file == IF IsNone(a.input) \/ missing THEN <<>>
                     ELSE load_urls_from_file(Val(a.input).lines)
        unique_urls == Dedup(one \o many \o from_file, {})
    IN  IF missing THEN [ok |-> FALSE, err |-> <<"Input file not found">>, list |-> <<>>]
        ELSE IF Len(unique_urls) = 0
        THEN [ok |-> FALSE, err |-> <<"No URLs specified">>, list |-> <<>>]
        ELSE [ok |-> TRUE, err |-> <<>>, list |-> unique_urls]

----------------------------------------------------------------------------
(* weak_configuration_scanner.py: fetch_url and main, one action per step *)

max_redirects == 10

HttpTools == {"http", "walk", "headers"}

TransportErrors == {<<"ConnectionError">>}

s_Location == <<"L", "o", "c", "a", "t", "i", "o", "n">>
u_https_a == <<"h", "t", "t", "p", "s", ":", "/", "/", "a", "/">>
u_http_a == <<"h", "t", "t", "p", ":", "/", "/", "a", "/">>
l_x == <<"/", "x">>
l_ftp == <<"f", "t", "p", ":", "/", "/", "a", "/">>
v_nosniff == <<"n", "o", "s", "n", "i", "f", "f">>
v_DENY == <<"D", "E", "N", "Y">>
v_x == <<"x">>

Header(name, value) == [k \in {name} |-> value]

NoHeaders == <<>>

\* a response that passes every check of check_security_headers
GoodHeaders ==
    [k \in {h_hsts, h_csp, h_xcto, h_xfo, h_rp, h_pp} |->
        IF k = h_hsts THEN <<"m", "a", "x", "-", "a", "g", "e", "=", "3", "1", "5", "3", "6", "0", "0", "0">>
        ELSE IF k = h_xcto THEN v_nosniff
        ELSE IF k = h_xfo THEN v_DENY
        ELSE v_x]

Response(u, status_code, headers) ==
    [url |-> PreparedUrl(u), status_code |-> status_code, headers |-> headers]

\* where the redirecting server sends a client that asked for u: two choices
\* per page, a relative or an absolute Location, either scheme
Locations(u) ==
    LET path == urlparse(u).path
    IN  IF path = <<"/", "x", "/", "y">> THEN {l_ftp, <<"z">>}
        ELSE IF path = l_x THEN {u_http_a, u_https_a}
        ELSE IF path = <<"/", "x", "/", "z">> THEN {u_https_a, <<"/", "/", "a", "/", "x">>}
        ELSE {l_x, u_http_a}

\* what a server may answer to a request for u while a redirect chain is walked
WalkResponses(u) ==
    {Response(u, 302, Header(s_Location, l)) : l \in Locations(u)}
    \cup {Response(u, 301, NoHeaders), Response(u, 200, Header(h_location, l_x))}
    \cup {Response(u, 200, h) : h \in {NoHeaders, GoodHeaders}}

\* the servers of a batch run: a redirect to /x, or a final page without headers
BatchResponses(u) ==
    {Response(u, 302, Header(s_Location, l_x)), Response(u, 404, NoHeaders)}

\* the ways a server may spell a header name
Casings == {"lower", "Title", "UPPER"}

\* "strict-transport-security" -> "Strict-Transport-Security"
TitleCase(s) ==
    [i \in 1..Len(s) |-> IF i = 1 \/ s[i - 1] = "-" THEN UpperChar(s[i]) ELSE s[i]]

Cased(casing, name) ==
    IF casing = "lower" THEN name
    ELSE IF casing = "Title" THEN TitleCase(name)
    ELSE Upper(name)

\* the values tried for each header; None is "header not sent"
HstsValues ==
    {None, Some(<<>>),
     Some(<<"m", "a", "x", "-", "a", "g", "e", "=", "3", "6", "0", "0">>), Some(<<"m", "a", "x", "-", "a", "g", "e", "=", "1", "5", "5", "5", "1", "9", "9", "9">>), Some(<<"m", "a", "x", "-", "a", "g", "e", "=", "1", "5", "5", "5", "2", "0", "0", "0">>),
     Some(<<"M", "a", "x", "-", "A", "g", "e", "=", "0", ";", " ", "i", "n", "c", "l", "u", "d", "e", "S", "u", "b", "D", "o", "m", "a", "i", "n", "s">>), Some(<<"i", "n", "c", "l", "u", "d", "e", "S", "u", "b", "D", "o", "m", "a", "i", "n", "s", ";", " ", "m", "a", "x", "-", "a", "g", "e", " ", "=", " ", "3", "6", "0", "0">>),
     Some(<<"i", "n", "c", "l", "u", "d", "e", "S", "u", "b", "D", "o", "m", "a", "i", "n", "s">>), Some(<<"p", "r", "e", "l", "o", "a", "d", ";", " ", "x", "-", "m", "a", "x", "-", "a", "g", "e", "=", "1">>), Some(<<"m", "a", "x", "-", "a", "g", "e">>),
     Some(<<"m", "a", "x", "-", "a", "g", "e", "=", "1", "y">>), Some(<<"m", "a", "x", "-", "a", "g", "e", " ", "3", "1", "5", "3", "6", "0", "0", "0">>),
     Some(<<"m", "a", "x", "-", "a", "g", "e", "=", "\"", "3", "6", "0", "0", "\"">>)}

CspValues == {None, Some(<<>>), Some(v_x)}
XctoValues == {None, Some(<<>>), Some(<<"N", "o", "S", "n", "i", "f", "f">>), Some(<<"s", "n", "i", "f", "f">>)}
XfoValues == {None, Some(v_DENY), Some(<<"a", "l", "l", "o", "w">>)}
RpValues == {None, Some(<<"U", "n", "s", "a", "f", "e", "-", "U", "R", "L">>), Some(<<"n", "o", "-", "r", "e", "f", "e", "r", "r", "e", "r">>)}
PpValues == {None, Some(<<>>), Some(v_x)}
XxpValues == {None, Some(<<"1">>)}

HeaderNames == <<h_hsts, h_csp, h_xcto, h_xfo, h_rp, h_pp, h_xxp>>

\* the header container holding HeaderNames[i] (spelled in casing) for every
\* i with a value in vals
MkHeaders(casing, vals) ==
    LET present == {i \in 1..Len(HeaderNames) : ~IsNone(vals[i])}
    IN  [k \in {Cased(casing, HeaderNames[i]) : i \in present} |->
            Val(vals[CHOOSE i \in present : Cased(casing, HeaderNames[i]) = k])]

\* a server that answers with a final page carrying any combination of the
\* header values above, the names spelled in any of the casings
HeaderResponses(u) ==
    {Response(u, 200, MkHeaders(c, <<hsts, csp, xcto, xfo, rp, pp, xxp>>)) :
        c \in Casings, hsts \in HstsValues, csp \in CspValues, xcto \in XctoValues,
        xfo \in XfoValues, rp \in RpValues, pp \in PpValues, xxp \in XxpValues}

Responses(u) ==
    IF tool = "walk" THEN WalkResponses(u)
    ELSE IF tool = "headers" THEN HeaderResponses(u)
    ELSE BatchResponses(u)

Last(q) == q[Len(q)]

\* a variant that follows a Location header whatever the status
FollowRedirect_any_status(fetched) ==
    /\ HasHeader(Last(fetched).headers, h_location)
    /\ Len(fetched) < max_redirects

\* a variant whose bound lets one more hop through
FollowRedirect_one_more(fetched) ==
    /\ IsRedirect(Last(fetched).status_code)
    /\ HasHeader(Last(fetched).headers, h_location)
    /\ Len(fetched) <= max_redirects

\* fetch_url, line 97: the condition of the while loop
FollowRedirect(fetched) ==
    /\ IsRedirect(Last(fetched).status_code)
    /\ HasHeader(Last(fetched).headers, h_location)
    /\ Len(fetched) < max_redirects

\* analyse_target returns; main appends the result and moves to the next url
HttpReturn(res) ==
    /\ results' = Append(results, res)
    /\ idx' = idx + 1
    /\ pc' = "loop"

\* main, lines 362-368: gather_urls, or "Error: ..." and return 1
HttpGather ==
    /\ tool \in HttpTools /\ pc = "start"
    /\ LET g == gather_urls(args)
       IN  IF g.ok
           THEN targets' = g.list /\ pc' = "loop"
           ELSE targets' = <<>> /\ pc' = "fatal"
    /\ UNCHANGED <<tool, args, idx, results, cur, sock, url, responses, wire>>

\* analyse_target, line 194: normalize_url; its ValueError is caught nowhere,
\* so it ends main with a traceback
HttpNormalize ==
    /\ tool \in HttpTools /\ pc = "loop" /\ idx <= Len(targets)
    /\ LET n == normalize_url(targets[idx])
       IN  IF n.ok
           THEN url' = Some(n.url) /\ pc' = "fetch"
           ELSE url' = None /\ pc' = "crashed"
    /\ responses' = <<>>
    /\ wire' = <<>>
    /\ UNCHANGED <<tool, args, targets, idx, results, cur, sock>>

\* a variant that resolves every Location against the URL the probe started
\* from instead of the URL of the response that carries it
HttpGet_resolves_against_first ==
    /\ tool \in HttpTools /\ pc = "fetch"
    /\ IF Len(responses) = 0 THEN TRUE ELSE FollowRedirect(responses)
    /\ LET next_url == IF Len(responses) = 0 THEN Val(url)
                       ELSE urljoin(responses[1].url,
                                    GetHeader(Last(responses).headers, h_location))
       IN  \/ \E e \in TransportErrors :
                /\ responses' = <<>>
                /\ wire' = Append(wire, None)
                /\ HttpReturn(analyse_target(Val(url), <<>>, Some(e)))
           \/ /\ CanRequest(next_url)
              /\ \E r \in Responses(next_url) :
                    /\ responses' = Append(responses, r)
                    /\ wire' = Append(wire, Some(r))
              /\ UNCHANGED <<results, idx, pc>>
    /\ UNCHANGED <<tool, args, targets, cur, sock, url>>

\* a variant that loses the exception of a failed request and reports what
\* was fetched so far
HttpGet_error_dropped ==
    /\ tool \in HttpTools /\ pc = "fetch"
    /\ IF Len(responses) = 0 THEN TRUE ELSE FollowRedirect(responses)
    /\ LET next_url == IF Len(responses) = 0 THEN Val(url)
                       ELSE urljoin(Last(responses).url,
                                    GetHeader(Last(responses).headers, h_location))
       IN  \/ \E e \in TransportErrors :
                /\ responses' = <<>>
                /\ wire' = Append(wire, None)
                /\ HttpReturn(analyse_target(Val(url), responses, None))
           \/ /\ CanRequest(next_url)
              /\ \E r \in Responses(next_url) :
                    /\ responses' = Append(responses, r)
                    /\ wire' = Append(wire, Some(r))
              /\ UNCHANGED <<results, idx, pc>>
    /\ UNCHANGED <<tool, args, targets, cur, sock, url>>

\* fetch_url, lines 93-94 and 98-102: one session.get, the first or the next
\* hop; any exception makes fetch_url return ([], e) and analyse_target
\* return the error result
HttpGet ==
    /\ tool \in HttpTools /\ pc = "fetch"
    /\ IF Len(responses) = 0 THEN TRUE ELSE FollowRedirect(responses)
    /\ LET next_url == IF Len(responses) = 0 THEN Val(url)
                       ELSE urljoin(Last(responses).url,
                                    GetHeader(Last(responses).headers, h_location))
       IN  \/ \E e \in TransportErrors :
                /\ responses' = <<>>
                /\ wire' = Append(wire, None)
                /\ HttpReturn(analyse_target(Val(url), <<>>, Some(e)))
           \/ /\ CanRequest(next_url)
              /\ \E r \in Responses(next_url) :
                    /\ responses' = Append(responses, r)
                    /\ wire' = Append(wire, Some(r))
              /\ UNCHANGED <<results, idx, pc>>
    /\ UNCHANGED <<tool, args, targets, cur, sock, url>>

\* a variant in which an HSTS value that cannot be parsed fails the probe
HttpAnalyse_parse_failure ==
    /\ tool \in HttpTools /\ pc = "fetch"
    /\ IF Len(responses) = 0 THEN FALSE ELSE ~FollowRedirect(responses)
    /\ LET hsts == DictGet(LowerKeys(Last(responses).headers), h_hsts)
       IN  IF ~IsRedirect(Last(responses).status_code) /\ HstsFindings(hsts) = <<NoteHstsUnparsed>>
           THEN HttpReturn(analyse_target(Val(url), <<>>, Some(<<"invalid literal for int()">>)))
           ELSE HttpReturn(analyse_target(Val(url), responses, None))
    /\ UNCHANGED <<tool, args, targets, cur, sock, url, responses, wire>>

\* fetch_url, line 105, and analyse_target, lines 197-240: the loop is over
HttpAnalyse ==
    /\ tool \in HttpTools /\ pc = "fetch"
    /\ IF Len(responses) = 0 THEN FALSE ELSE ~FollowRedirect(responses)
    /\ HttpReturn(analyse_target(Val(url), responses, None))
    /\ UNCHANGED <<tool, args, targets, cur, sock, url, responses, wire>>

\* main, lines 376-382: the report is printed and main returns 0
HttpReport ==
    /\ tool \in HttpTools /\ pc = "loop" /\ idx > Len(targets)
    /\ pc' = "done"
    /\ UNCHANGED <<tool, args, targets, idx, results, cur, sock, url, responses, wire>>

NoResult == TLSResult(<<>>, <<>>, 0, None)

NoFile == None

File(exists, lines) == Some([exists |-> exists, lines |-> lines])

----------------------------------------------------------------------------
(* The HTTP scanner on one URL against a redirecting server *)

WalkUrls == {<<"h", "t", "t", "p", "s", ":", "/", "/", "a">>, <<"h", "t", "t", "p", ":", "/", "/", "a", "/", "x">>, <<"a">>, <<"a", ":", "9">>, <<" ", "h", "t", "t", "p", "s", ":", "/", "/", "a", "/", "x", "/", "y", " ">>}

HttpArgs(u, us, f) == [url |-> u, urls |-> us, input |-> f]

WalkInit ==
    /\ tool = "walk" /\ pc = "start"
    /\ args \in {HttpArgs(Some(u), None, NoFile) : u \in WalkUrls}
    /\ targets = <<>> /\ idx = 1 /\ results = <<>> /\ cur = NoResult /\ sock = <<>>
    /\ url = None /\ responses = <<>> /\ wire = <<>>

HttpNext == HttpGather \/ HttpNormalize \/ HttpGet \/ HttpAnalyse \/ HttpReport

SpecWalk == WalkInit /\ [][HttpNext]_vars

(* The HTTP scanner on one URL against a server answering with a final page *)

HeadersInit ==
    /\ tool = "headers" /\ pc = "start"
    /\ args \in {HttpArgs(Some(u), None, NoFile) : u \in {<<"h", "t", "t", "p", "s", ":", "/", "/", "a">>, <<"h", "t", "t", "p", ":", "/", "/", "a">>}}
    /\ targets = <<>> /\ idx = 1 /\ results = <<>> /\ cur = NoResult /\ sock = <<>>
    /\ url = None /\ responses = <<>> /\ wire = <<>>

SpecHeaders == HeadersInit /\ [][HttpNext]_vars

----------------------------------------------------------------------------
(* Both mains over a list of targets *)

TlsArgs(t, ts, f) == [target |-> t, targets |-> ts, input |-> f]

BatchFiles == {NoFile, File(FALSE, <<>>), File(TRUE, << <<"#", " ", "c">>, <<" ", "a", ":", "9", " ">>, <<>> >>)}

TlsBatchArgs ==
    {TlsArgs(t, ts, f) :
        t \in {None, Some(<<" ">>), Some(<<"a">>)},
        ts \in {None, Some(<<"a", ",", " ", "b", ":", "x">>), Some(<<"b", ":", "9", ",", ",", "a">>)},
        f \in BatchFiles}

HttpBatchArgs ==
    {HttpArgs(u, us, f) :
        u \in {None, Some(<<" ">>), Some(<<"a">>)},
        us \in {None, Some(<<"a", ",", "h", "t", "t", "p", ":", "/", "/", "[", "b">>), Some(<<"h", "t", "t", "p", ":", "/", "/", "b", ",", " ", "a">>)},
        f \in BatchFiles}

BatchInit ==
    /\ tool \in {"tls", "http"} /\ pc = "start"
    /\ args \in IF tool = "tls" THEN TlsBatchArgs ELSE HttpBatchArgs
    /\ targets = <<>> /\ idx = 1 /\ results = <<>> /\ cur = NoResult /\ sock = <<>>
    /\ url = None /\ responses = <<>> /\ wire = <<>>

TlsNext ==
    TlsGather \/ TlsParse \/ TlsConnect \/ TlsHandshake \/ TlsReadVersion \/ TlsReadCipher
    \/ TlsReport

BatchNext == TlsNext \/ HttpNext

SpecBatch == BatchInit /\ [][BatchNext]_vars

----------------------------------------------------------------------------
(* gather_targets and gather_urls on their own: every small command line *)

MaxArgLen == 3

MaxLines == 2

GatherSingles == {None} \cup {Some(q) : q \in SeqsUpTo({"a", " "}, MaxArgLen)}

GatherLists == {None} \cup {Some(q) : q \in SeqsUpTo({"a", " ", ","}, MaxArgLen)}

GatherFiles ==
    {NoFile, File(FALSE, <<>>)}
    \cup {File(TRUE, ls) : ls \in SeqsUpTo({<<"a">>, <<" ", "b">>, <<"#", "a">>, <<>>}, MaxLines)}

GatherInit ==
    /\ tool \in {"gather_targets", "gather_urls"} /\ pc = "start"
    /\ args \in IF tool = "gather_targets"
                THEN {TlsArgs(t, ts, f) : t \in GatherSingles, ts \in GatherLists, f \in GatherFiles}
                ELSE {HttpArgs(t, ts, f) : t \in GatherSingles, ts \in GatherLists, f \in GatherFiles}
    /\ targets = <<>> /\ idx = 1 /\ results = <<>> /\ cur = NoResult /\ sock = <<>>
    /\ url = None /\ responses = <<>> /\ wire = <<>>

\* gather_targets(args), lines 195-224
GatherTargets ==
    /\ tool = "gather_targets" /\ pc = "start"
    /\ LET g == gather_targets(args)
       IN  targets' = g.list /\ pc' = IF g.ok THEN "gathered" ELSE "raised"
    /\ UNCHANGED <<tool, args, idx, results, cur, sock, url, responses, wire>>

\* gather_urls(args), lines 285-314
GatherUrls ==
    /\ tool = "gather_urls" /\ pc = "start"
    /\ LET g == gather_urls(args)
       IN  targets' = g.list /\ pc' = IF g.ok THEN "gathered" ELSE "raised"
    /\ UNCHANGED <<tool, args, idx, results, cur, sock, url, responses, wire>>

SpecGather == GatherInit /\ [][GatherTargets \/ GatherUrls]_vars

----------------------------------------------------------------------------
(* Properties of the batch runs *)

\* an entry that no probe can be run for: blank, or (TLS) with a port that is
\* not a number, or (HTTP) that urlparse rejects
InvalidTlsEntry(t) ==
    LET e == Strip(t)
        colon == RFind(e, ":")
    IN  Len(e) = 0 \/ (colon > 0 /\ ~IsDigit(Slice(e, colon + 1, Len(e))))

InvalidHttpEntry(t) == Len(Strip(t)) = 0 \/ ~urlparse(Strip(t)).ok

\* C1: in both batch runs a failure local to one target (an invalid entry, a
\* transport failure) is recorded in that target's result with error set and
\* the run goes on: it never ends before every target has its result, and
\* every invalid entry already passed has a result with error set.
C1_TargetFailureIsContained ==
    /\ pc # "crashed"
    /\ \A i \in 1..Len(results) :
          (IF tool = "tls" THEN InvalidTlsEntry(targets[i]) ELSE InvalidHttpEntry(targets[i]))
              => ~IsNone(results[i].error)

\* result r is the result of entry t: it carries t's text, trimmed, with the
\* default scheme in front when the HTTP scanner added one
BelongsTo(r, t) ==
    IF tool = "tls" THEN Strip(r.target) = Strip(t)
    ELSE r.url \in {Strip(t), s_https_prefix \o Strip(t)}

ResultsInStep ==
    /\ Len(results) = idx - 1
    /\ Len(results) <= Len(targets)
    /\ pc = "done" => Len(results) = Len(targets)
    /\ \A i \in 1..Len(results) : BelongsTo(results[i], targets[i])

AppendOnly ==
    \/ results' = results
    \/ /\ Len(results') = Len(results) + 1
       /\ SubSeq(results', 1, Len(results)) = results

\* C2: a completed batch run over n targets holds exactly n results, the
\* i-th belonging to the i-th target; results are only ever appended, one
\* per target, never filtered, reordered or rewritten.
C2_OneResultPerTargetInOrder == []ResultsInStep /\ [][AppendOnly]_vars

\* a finished TLS run over four targets whose first and third entries were
\* rejected and whose last was probed with success
C2_Witness ==
    /\ tool = "tls" /\ pc = "done" /\ Len(results) = 4
    /\ ~IsNone(results[1].error) /\ results[1].port = 0
    /\ ~IsNone(results[3].error) /\ results[3].port = 0
    /\ IsNone(results[4].error) /\ ~IsNone(results[4].tls_version)

\* C10: whenever the TLS probe fails at any step, the returned result has
\* error set and carries no observation: version, cipher name, protocol and
\* bits absent, both flags false.
C10_FailedProbeHasNoObservation ==
    tool = "tls" =>
        \A i \in 1..Len(results) :
            ~IsNone(results[i].error) =>
                /\ IsNone(results[i].tls_version)
                /\ IsNone(results[i].cipher_name)
                /\ IsNone(results[i].cipher_protocol)
                /\ IsNone(results[i].cipher_bits)
                /\ ~results[i].weak_protocol
                /\ ~results[i].weak_cipher

----------------------------------------------------------------------------
(* Properties of target gathering *)

\* what the command line supplies, in order and trimmed: the single value,
\* the items of the comma list, the lines of the file (blank items, blank
\* lines and comment lines left out)
SuppliedEntries(a) ==
    LET single == IF tool = "gather_targets" THEN a.target ELSE a.url
        list   == IF tool = "gather_targets" THEN a.targets ELSE a.urls
        items  == IF IsNone(list) THEN <<>> ELSE Split(Val(list), ",")
        lines  == IF IsNone(a.input) \/ ~Val(a.input).exists THEN <<>> ELSE Val(a.input).lines
        NonBlank(e) == Len(Strip(e)) > 0
        given  == (IF Truthy(single) THEN <<Val(single)>> ELSE <<>>)
                  \o SelectSeq(items, NonBlank)
                  \o SelectSeq(lines, LAMBDA l : NonBlank(l) /\ ~StartsWith(Strip(l), <<"#">>))
    IN  [i \in 1..Len(given) |-> Strip(given[i])]

RECURSIVE FirstOccurrences(_)
FirstOccurrences(list) ==
    IF Len(list) = 0 THEN <<>>
    ELSE LET front == FirstOccurrences(SubSeq(list, 1, Len(list) - 1))
         IN  IF Last(list) \in Range(front) THEN front ELSE Append(front, Last(list))

\* C3: gathering returns a list in which no two entries are equal after
\* trimming surrounding whitespace, in the order of their first occurrence in
\* the combined input (single value, then list items, then file lines).
C3_GatheredDistinctAfterTrim ==
    pc = "gathered" =>
        /\ \A i, j \in 1..Len(targets) : i # j => Strip(targets[i]) # Strip(targets[j])
        /\ [i \in 1..Len(targets) |-> Strip(targets[i])] = FirstOccurrences(SuppliedEntries(args))

----------------------------------------------------------------------------
(* Properties of the TLS classifier *)

\* C4: is_weak_cipher is true iff the cipher name, compared case-insensitively,
\* contains one of RC4, 3DES, DES-, MD5, NULL, EXPORT, or the bit length is
\* present and below 128 (the latter alone is sufficient), whether the name
\* and the bit length are present or absent.
C4_WeakCipherIff ==
    pc = "classified" =>
        (cur.weak_cipher <=>
            \/ /\ ~IsNone(cur.cipher_name)
               /\ \E bad \in {<<"r", "c", "4">>, <<"3", "d", "e", "s">>, <<"d", "e", "s", "-">>, <<"m", "d", "5">>, <<"n", "u", "l", "l">>, <<"e", "x", "p", "o", "r", "t">>} :
                     Contains(Lower(Val(cur.cipher_name)), bad)
            \/ /\ ~IsNone(cur.cipher_bits)
               /\ Val(cur.cipher_bits) < 128)

\* C5: is_weak_protocol is true iff the negotiated version is present and is
\* exactly one of SSLv2, SSLv3, TLSv1, TLSv1.1, whatever the cipher name and
\* the bit length are.
C5_WeakProtocolIff ==
    pc = "classified" =>
        (cur.weak_protocol <=>
            /\ ~IsNone(cur.tls_version)
            /\ Val(cur.tls_version) \in {<<"S", "S", "L", "v", "2">>, <<"S", "S", "L", "v", "3">>, <<"T", "L", "S", "v", "1">>, <<"T", "L", "S", "v", "1", ".", "1">>})

\* flagged on the protocol axis alone: TLSv1.1 with a 256-bit cipher whose name
\* is on no deny-list
C5_Witness ==
    /\ pc = "classified"
    /\ cur.tls_version = Some(s_TLSv1_1) /\ cur.weak_protocol
    /\ cur.cipher_name = Some(s_AES) /\ cur.cipher_bits = Some(256) /\ ~cur.weak_cipher

----------------------------------------------------------------------------
(* Properties of the HTTP probe *)

\* the probe of results[i] got a final answer that is not a redirect
Evaluated(i) ==
    /\ IsNone(results[i].error)
    /\ ~(300 <= Val(results[i].status_code) /\ Val(results[i].status_code) < 400)

\* C6: for every probe that completes without a transport error,
\* https_downgrade is true iff the first request went to an https URL and the
\* final URL of the chain is an http URL, whatever the hops in between.
C6_DowngradeIffHttpsToHttp ==
    tool = "walk" =>
        \A i \in 1..Len(results) :
            IsNone(results[i].error) =>
                (results[i].https_downgrade <=>
                    /\ StartsWith(results[i].url, <<"h", "t", "t", "p", "s", ":", "/", "/">>)
                    /\ StartsWith(Val(results[i].final_url), <<"h", "t", "t", "p", ":", "/", "/">>))

\* an https start, a hop over http in between, an https end: not a downgrade
C6_Witness ==
    /\ tool = "walk" /\ Len(results) = 1 /\ IsNone(results[1].error)
    /\ StartsWith(results[1].url, <<"h", "t", "t", "p", "s", ":", "/", "/">>)
    /\ Len(wire) >= 3
    /\ \E j \in 2..(Len(wire) - 1) : StartsWith(Val(wire[j]).url, <<"h", "t", "t", "p", ":", "/", "/">>)
    /\ StartsWith(Val(results[1].final_url), <<"h", "t", "t", "p", "s", ":", "/", "/">>)
    /\ ~results[1].https_downgrade

\* C7: for every final non-redirect response, missing_required_headers is
\* exactly the names of the five required headers that, compared without
\* regard to case, are not among the response's header names, and
\* missing_optional_headers the same for permissions-policy and
\* x-xss-protection; no headers at all gives all five.
C7_MissingHeadersExact ==
    tool = "headers" =>
        \A i \in 1..Len(results) :
            Evaluated(i) =>
                LET sent == {Lower(k) : k \in DOMAIN Val(Last(wire)).headers}
                    Absent(h) == h \notin sent
                IN  /\ results[i].missing_required_headers =
                           Join(SelectSeq(<<<<"s", "t", "r", "i", "c", "t", "-", "t", "r", "a", "n", "s", "p", "o", "r", "t", "-", "s", "e", "c", "u", "r", "i", "t", "y">>,
                                            <<"c", "o", "n", "t", "e", "n", "t", "-", "s", "e", "c", "u", "r", "i", "t", "y", "-", "p", "o", "l", "i", "c", "y">>,
                                            <<"x", "-", "c", "o", "n", "t", "e", "n", "t", "-", "t", "y", "p", "e", "-", "o", "p", "t", "i", "o", "n", "s">>,
                                            <<"x", "-", "f", "r", "a", "m", "e", "-", "o", "p", "t", "i", "o", "n", "s">>,
                                            <<"r", "e", "f", "e", "r", "r", "e", "r", "-", "p", "o", "l", "i", "c", "y">>>>, Absent), <<";">>)
                    /\ results[i].missing_optional_headers =
                           Join(SelectSeq(<<<<"p", "e", "r", "m", "i", "s", "s", "i", "o", "n", "s", "-", "p", "o", "l", "i", "c", "y">>,
                                            <<"x", "-", "x", "s", "s", "-", "p", "r", "o", "t", "e", "c", "t", "i", "o", "n">>>>, Absent), <<";">>)
                    /\ sent = {} =>
                           Len(Split(results[i].missing_required_headers, ";")) = 5

\* a page that sends Strict-Transport-Security and X-Frame-Options, spelled
\* with capitals, and nothing else: the other three required headers and both
\* optional ones are listed
C7_Witness ==
    /\ tool = "headers" /\ Len(results) = 1 /\ IsNone(results[1].error)
    /\ DOMAIN Val(Last(wire)).headers =
           {<<"S", "t", "r", "i", "c", "t", "-", "T", "r", "a", "n", "s", "p", "o", "r", "t", "-", "S", "e", "c", "u", "r", "i", "t", "y">>, <<"X", "-", "F", "r", "a", "m", "e", "-", "O", "p", "t", "i", "o", "n", "s">>}
    /\ results[1].missing_required_headers =
           <<"c", "o", "n", "t", "e", "n", "t", "-", "s", "e", "c", "u", "r", "i", "t", "y", "-", "p", "o", "l", "i", "c", "y", ";", "x", "-", "c", "o", "n", "t", "e", "n", "t", "-", "t", "y", "p", "e", "-", "o", "p", "t", "i", "o", "n", "s", ";", "r", "e", "f", "e", "r", "r", "e", "r", "-", "p", "o", "l", "i", "c", "y">>
    /\ results[1].missing_optional_headers = <<"p", "e", "r", "m", "i", "s", "s", "i", "o", "n", "s", "-", "p", "o", "l", "i", "c", "y", ";", "x", "-", "x", "s", "s", "-", "p", "r", "o", "t", "e", "c", "t", "i", "o", "n">>

\* the name of one directive of a Strict-Transport-Security value
DirectiveName(part) ==
    LET eq == Find(part, "=")
    IN  Lower(Strip(IF eq = 0 THEN part ELSE Slice(part, 1, eq - 1)))

\* the value carries a directive named max-age
HasMaxAgeDirective(value) ==
    \E part \in Range(Split(value, ";")) : DirectiveName(part) = <<"m", "a", "x", "-", "a", "g", "e">>

\* the value carries a max-age directive with a number below 180 days
MaxAgeBelowSixMonths(value) ==
    \E part \in Range(Split(value, ";")) :
        /\ DirectiveName(part) = <<"m", "a", "x", "-", "a", "g", "e">>
        /\ LET number == Strip(Slice(part, Find(part, "=") + 1, Len(part)))
           IN  Find(part, "=") > 0 /\ IsDigit(number) /\ DigitsValue(number) < 15552000

\* some note of the HSTS heuristics is among the findings of results[i]
HstsNoteEmitted(i) ==
    \E j \in 1..Len(results[i].header_findings) :
        results[i].header_findings[j] \in
            {"HSTS present but max-age missing",
             "HSTS max-age < 6 months (consider increasing)",
             "Could not parse HSTS max-age",
             "HSTS missing (for HTTPS site)"}

\* C8: for every final response the HSTS heuristics emit a note when the
\* strict-transport-security header is absent, when it is present but its
\* value has no max-age directive, and when it is present with a max-age
\* below 15552000 seconds.
C8_HstsNoteInThreeCases ==
    tool = "headers" =>
        \A i \in 1..Len(results) :
            Evaluated(i) =>
                LET headers == Val(Last(wire)).headers
                    present == \E k \in DOMAIN headers : Lower(k) = <<"s", "t", "r", "i", "c", "t", "-", "t", "r", "a", "n", "s", "p", "o", "r", "t", "-", "s", "e", "c", "u", "r", "i", "t", "y">>
                    value == headers[CHOOSE k \in DOMAIN headers :
                                         Lower(k) = <<"s", "t", "r", "i", "c", "t", "-", "t", "r", "a", "n", "s", "p", "o", "r", "t", "-", "s", "e", "c", "u", "r", "i", "t", "y">>]
                    noted == IF ~present THEN TRUE
                             ELSE IF ~HasMaxAgeDirective(value) THEN TRUE
                             ELSE MaxAgeBelowSixMonths(value)
                IN  noted => HstsNoteEmitted(i)

\* every request of the probe was answered, and answered with a redirect that
\* carries a Location header
EveryAnswerRedirects ==
    /\ Len(wire) > 0
    /\ \A j \in 1..Len(wire) :
          /\ ~IsNone(wire[j])
          /\ 300 <= Val(wire[j]).status_code /\ Val(wire[j]).status_code < 400
          /\ \E k \in DOMAIN Val(wire[j]).headers : Lower(k) = <<"l", "o", "c", "a", "t", "i", "o", "n">>

\* C9: against a server that answers every request with a redirect carrying a
\* Location header the walk stops after 10 hops; the result is returned with
\* no error, still in redirect state, its chain the 10 URLs requested, and no
\* header evaluation is made (missing-header lists and findings stay empty).
C9_RedirectWalkTruncated ==
    (tool = "walk" /\ Len(results) = 1 /\ EveryAnswerRedirects) =>
        /\ Len(wire) = 10
        /\ IsNone(results[1].error)
        /\ results[1].status_code = Some(Val(wire[10]).status_code)
        /\ results[1].final_url = Some(Val(wire[10]).url)
        /\ results[1].redirect_chain =
               Join([j \in 1..10 |-> Val(wire[j]).url], <<" ", "-", ">", " ">>)
        /\ results[1].missing_required_headers = <<>>
        /\ results[1].missing_optional_headers = <<>>
        /\ results[1].header_findings = <<>>

\* a finished walk of ten answered requests, every answer a redirect
C9_Witness ==
    /\ tool = "walk" /\ Len(results) = 1 /\ EveryAnswerRedirects
    /\ Len(wire) = 10 /\ IsNone(results[1].error)

\* a request of the probe was not answered (transport failure)
RequestFailed == \E j \in 1..Len(wire) : IsNone(wire[j])

\* C11: a transport failure on the first request or on a later hop ends the
\* probe with error set, no final URL or status and every finding field
\* empty or false; a probe without transport failure has error unset and
\* final_url and status_code populated.
C11_ErrorOrObservation ==
    tool = "walk" =>
        \A i \in 1..Len(results) :
            IF RequestFailed
            THEN /\ ~IsNone(results[i].error)
                 /\ IsNone(results[i].final_url)
                 /\ IsNone(results[i].status_code)
                 /\ ~results[i].https_downgrade
                 /\ results[i].missing_required_headers = <<>>
                 /\ results[i].missing_optional_headers = <<>>
                 /\ results[i].header_findings = <<>>
            ELSE /\ IsNone(results[i].error)
                 /\ ~IsNone(results[i].final_url)
                 /\ ~IsNone(results[i].status_code)

\* a probe that got two answers and failed on its third request
C11_Witness ==
    /\ tool = "walk" /\ Len(results) = 1
    /\ Len(wire) = 3 /\ ~IsNone(wire[1]) /\ ~IsNone(wire[2]) /\ IsNone(wire[3])
    /\ ~IsNone(results[1].error)

\* the URLs of the responses the probe received, in order
AnsweredUrls ==
    LET answered == SelectSeq(wire, LAMBDA w : ~IsNone(w))
    IN  [j \in 1..Len(answered) |-> Val(answered[j]).url]

\* C12: the reported redirect chain is empty only if the very first request
\* failed; when responses were received before a failure the hops already
\* traversed are still in the chain.
C12_ChainKeepsTraversedHops ==
    tool = "walk" =>
        \A i \in 1..Len(results) :
            /\ results[i].redirect_chain = <<>> => IsNone(wire[1])
            /\ results[i].redirect_chain = Join(AnsweredUrls, <<" ", "-", ">", " ">>)

\* C13: the classifier outputs are computed only when the chain ended on a
\* non-redirect status: a result whose final status code is in [300, 400) has
\* https_downgrade false and the three header outputs empty.
C13_RedirectEndHasNoFindings ==
    tool = "walk" =>
        \A i \in 1..Len(results) :
            (/\ ~IsNone(results[i].status_code)
             /\ 300 <= Val(results[i].status_code)
             /\ Val(results[i].status_code) < 400) =>
                /\ ~results[i].https_downgrade
                /\ results[i].missing_required_headers = <<>>
                /\ results[i].missing_optional_headers = <<>>
                /\ results[i].header_findings = <<>>

----------------------------------------------------------------------------
(* Properties of the parsers *)

\* C14: every descriptor parse_target returns has a non-empty host and a
\* port in 1..65535.
C14_ParsedTargetInRange ==
    (tool = "parse_target" /\ pc = "parsed") =>
        /\ Len(cur.hostname) > 0
        /\ 1 <= cur.port /\ cur.port <= 65535

\* C15: for a non-empty input normalize_url returns a URL with an explicit
\* http or https scheme: an input without a scheme (a bare host or host:port
\* included) comes back with https:// in front, an input that has one comes
\* back unchanged apart from trimming.
C15_NormalizedHasScheme ==
    (tool = "walk" /\ pc = "fetch") =>
        LET given == Strip(targets[idx])
        IN  /\ \/ StartsWith(Val(url), <<"h", "t", "t", "p", ":", "/", "/">>)
               \/ StartsWith(Val(url), <<"h", "t", "t", "p", "s", ":", "/", "/">>)
            /\ Val(url) = IF Contains(given, <<":", "/", "/">>) THEN given
                          ELSE <<"h", "t", "t", "p", "s", ":", "/", "/">> \o given

\* C16: whenever at least one target is supplied through the single value,
\* the comma list or the file, gathering succeeds, even if another of the
\* inputs is unusable (the named file does not exist).
C16_GatherSucceedsWithATarget ==
    (/\ tool \in {"gather_targets", "gather_urls"}
     /\ \E e \in Range(SuppliedEntries(args)) : Len(e) > 0) =>
        pc # "raised"

----------------------------------------------------------------------------
(* Properties of the order of steps in a batch run *)

\* a connection of the run has been opened: a TLS socket, or an HTTP request
\* that was answered
ConnectionOpened ==
    IF tool = "tls" THEN Len(sock) > 0
    ELSE \E j \in 1..Len(wire) : ~IsNone(wire[j])

\* C17: every invalid-target error is surfaced before probing starts: no
\* connection is opened while entries of the target list are still to be
\* parsed, and an invalid entry never causes a connection.
C17_AllParsedBeforeProbing ==
    tool \in {"tls", "http"} =>
        /\ ConnectionOpened => idx >= Len(targets)
        /\ (tool = "tls" /\ pc \in {"handshake", "version", "cipher"}) =>
               ~InvalidTlsEntry(targets[idx])
        /\ (tool = "http" /\ pc = "fetch" /\ ConnectionOpened) =>
               ~InvalidHttpEntry(targets[idx])

----------------------------------------------------------------------------
(* Properties of header parsing *)

\* how many notes of the HSTS heuristics are among the findings of results[i]
HstsNoteCount(i) ==
    Cardinality({j \in 1..Len(results[i].header_findings) :
        results[i].header_findings[j] \in
            {"HSTS present but max-age missing",
             "HSTS max-age < 6 months (consider increasing)",
             "Could not parse HSTS max-age",
             "HSTS missing (for HTTPS site)"}})

\* C18: whatever the header values of the final response (an HSTS max-age
\* that is non-numeric, quoted, empty or without "=" included), the probe
\* does not fail: the run goes on, the result has error unset and its
\* observation, and the ambiguity shows at most as one note.
C18_HeaderParsingNeverFails ==
    tool = "headers" =>
        /\ pc # "crashed"
        /\ \A i \in 1..Len(results) :
              ~RequestFailed =>
                  /\ IsNone(results[i].error)
                  /\ results[i].status_code = Some(Val(Last(wire)).status_code)
                  /\ HstsNoteCount(i) <= 1

\* a final page whose HSTS max-age is quoted: reported as a note, no error
C18_Witness ==
    /\ tool = "headers" /\ Len(results) = 1 /\ ~RequestFailed
    /\ \E k \in DOMAIN Val(Last(wire)).headers :
          Val(Last(wire)).headers[k] = <<"m", "a", "x", "-", "a", "g", "e", "=", "\"", "3", "6", "0", "0", "\"">>
    /\ IsNone(results[1].error)
    /\ \E j \in 1..Len(results[1].header_findings) :
          results[1].header_findings[j] = "Could not parse HSTS max-age"

----------------------------------------------------------------------------
(* Properties of the TLS probe's socket *)

\* check_target is between connect and return
InsideProbe == pc \in {"handshake", "version", "cipher"}

\* C19: the TLS probe opens at most one socket per target and closes it on
\* every exit path of check_target; no socket opened for an earlier target
\* is still open.
C19_SocketClosedOnEveryPath ==
    tool = "tls" =>
        /\ Len(sock) <= Len(results) + (IF InsideProbe THEN 1 ELSE 0)
        /\ \A j \in 1..Len(sock) :
              sock[j] = "open" => (j = Len(sock) /\ InsideProbe)

\* a finished run in which one probe failed in the handshake, one failed
\* reading the cipher and one succeeded: three sockets, all closed
C19_Witness ==
    /\ tool = "tls" /\ pc = "done" /\ Len(sock) = 3
    /\ \A j \in 1..Len(sock) : sock[j] = "closed"
    /\ \E i \in 1..Len(results) : results[i].error = Some(<<"[SSL] handshake failure">>)
    /\ \E i \in 1..Len(results) : results[i].error = Some(<<"[Errno 104] Connection reset by peer">>)
    /\ \E i \in 1..Len(results) : IsNone(results[i].error) /\ ~IsNone(results[i].cipher_name)

----------------------------------------------------------------------------
(* Properties of the redirect walk as a state machine *)

\* answer j of the probe is a redirect
Is3xx(j) == 300 <= Val(wire[j]).status_code /\ Val(wire[j]).status_code < 400

\* answer j of the probe names where to go next
HasLocation(j) == \E k \in DOMAIN Val(wire[j]).headers : Lower(k) = <<"l", "o", "c", "a", "t", "i", "o", "n">>

\* C20 as stated: a walk that stops without a transport error stops on a
\* non-3xx response or with the hop bound exhausted, never on a 3xx response
\* while hops remain.
C20_StopsOnFinalOrBound ==
    (tool = "walk" /\ Len(results) = 1 /\ ~RequestFailed) =>
        \/ ~Is3xx(Len(wire))
        \/ Len(wire) = 10

\* C20, amended: every response before the last one is a 3xx carrying a
\* Location header (Redirecting -> Requesting), there are never more than 10
\* of them, and a walk that stops without a transport error stops on a
\* non-3xx response, on a 3xx response without a Location header, or with
\* the hop bound exhausted.
C20_StopsOnFinalNoLocationOrBound ==
    tool = "walk" =>
        /\ Len(wire) <= 10
        /\ \A j \in 1..(Len(wire) - 1) :
              ~IsNone(wire[j]) /\ Is3xx(j) /\ HasLocation(j)
        /\ (Len(results) = 1 /\ ~RequestFailed) =>
              \/ ~Is3xx(Len(wire))
              \/ ~HasLocation(Len(wire))
              \/ Len(wire) = 10

\* a walk that stopped on its third response, a 3xx without Location
C20_Witness ==
    /\ tool = "walk" /\ Len(results) = 1 /\ ~RequestFailed
    /\ Len(wire) = 3 /\ Is3xx(3) /\ ~HasLocation(3)
    /\ IsNone(results[1].error) /\ results[1].status_code = Some(301)

\* the Location header of answer j of the probe
LocationOf(j) ==
    Val(wire[j]).headers[CHOOSE k \in DOMAIN Val(wire[j]).headers : Lower(k) = <<"l", "o", "c", "a", "t", "i", "o", "n">>]

\* C21: in every chain the walk returns, each entry but the last is a 3xx
\* response carrying a Location header, entry j + 1 answers a request to the
\* URL obtained by resolving entry j's Location against entry j's own URL,
\* and the chain lists the entries in the order the requests were made.
C21_ChainFollowsLocations ==
    tool = "walk" =>
        \A i \in 1..Len(results) :
            IsNone(results[i].error) =>
                /\ results[i].redirect_chain =
                       Join([j \in 1..Len(wire) |-> Val(wire[j]).url], <<" ", "-", ">", " ">>)
                /\ \A j \in 1..(Len(wire) - 1) :
                      /\ Is3xx(j) /\ HasLocation(j)
                      /\ Val(wire[j + 1]).url =
                             PreparedUrl(urljoin(Val(wire[j]).url, LocationOf(j)))

\* a chain over a relative Location ("z" from /x/y), a scheme-relative one
\* ("//a/x" from /x/z) and an absolute one that changes the scheme
C21_Witness ==
    /\ tool = "walk" /\ Len(results) = 1 /\ IsNone(results[1].error)
    /\ Len(wire) = 4
    /\ Val(wire[1]).url = <<"h", "t", "t", "p", "s", ":", "/", "/", "a", "/", "x", "/", "y">> /\ LocationOf(1) = <<"z">>
    /\ Val(wire[2]).url = <<"h", "t", "t", "p", "s", ":", "/", "/", "a", "/", "x", "/", "z">> /\ LocationOf(2) = <<"/", "/", "a", "/", "x">>
    /\ Val(wire[3]).url = <<"h", "t", "t", "p", "s", ":", "/", "/", "a", "/", "x">> /\ LocationOf(3) = <<"h", "t", "t", "p", ":", "/", "/", "a", "/">>
    /\ Val(wire[4]).url = <<"h", "t", "t", "p", ":", "/", "/", "a", "/">>
    /\ results[1].redirect_chain =
           <<"h", "t", "t", "p", "s", ":", "/", "/", "a", "/", "x", "/", "y", " ", "-", ">", " ", "h", "t", "t", "p", "s", ":", "/", "/", "a", "/", "x", "/", "z", " ", "-", ">", " ", "h", "t", "t", "p", "s", ":", "/", "/", "a", "/", "x", " ", "-", ">", " ", "h", "t", "t", "p", ":", "/", "/", "a", "/">>

----------------------------------------------------------------------------
(* Agreement of the two outputs of check_security_headers *)

\* the note is among the findings of results[i]
Noted(i, note) ==
    \E j \in 1..Len(results[i].header_findings) : results[i].header_findings[j] = note

\* the header is listed in the joined list
Listed(joined, header) == header \in Range(Split(joined, ";"))

\* C22: for each required header and for permissions-policy, the
\* "... missing" note is emitted iff the header is listed in
\* missing_required_headers (missing_optional_headers for
\* permissions-policy), for every header set, headers present with an
\* empty value included.
C22_MissingNoteIffListed ==
    tool = "headers" =>
        \A i \in 1..Len(results) :
            Evaluated(i) =>
                LET req == results[i].missing_required_headers
                    opt == results[i].missing_optional_headers
                IN  /\ Noted(i, "HSTS missing (for HTTPS site)")
                           <=> Listed(req, <<"s", "t", "r", "i", "c", "t", "-", "t", "r", "a", "n", "s", "p", "o", "r", "t", "-", "s", "e", "c", "u", "r", "i", "t", "y">>)
                    /\ Noted(i, "Content-Security-Policy header missing")
                           <=> Listed(req, <<"c", "o", "n", "t", "e", "n", "t", "-", "s", "e", "c", "u", "r", "i", "t", "y", "-", "p", "o", "l", "i", "c", "y">>)
                    /\ Noted(i, "X-Content-Type-Options missing")
                           <=> Listed(req, <<"x", "-", "c", "o", "n", "t", "e", "n", "t", "-", "t", "y", "p", "e", "-", "o", "p", "t", "i", "o", "n", "s">>)
                    /\ Noted(i, "X-Frame-Options missing (consider SAMEORIGIN or DENY)")
                           <=> Listed(req, <<"x", "-", "f", "r", "a", "m", "e", "-", "o", "p", "t", "i", "o", "n", "s">>)
                    /\ Noted(i, "Referrer-Policy missing (consider 'strict-origin-when-cross-origin')")
                           <=> Listed(req, <<"r", "e", "f", "e", "r", "r", "e", "r", "-", "p", "o", "l", "i", "c", "y">>)
                    /\ Noted(i, "Permissions-Policy missing (not critical but recommended)")
                           <=> Listed(opt, <<"p", "e", "r", "m", "i", "s", "s", "i", "o", "n", "s", "-", "p", "o", "l", "i", "c", "y">>)

=============================================================================
